---- MODULE Spec2Model ----
(***************************************************************************)
(* Route construction of tourist_ai_bot: AIService.generate_route          *)
(* (services/ai_service.py), the external optimizer client                 *)
(* (services/ionet_route_service.py), the result normalizer                *)
(* (services/route_formatter.py), the description enricher                 *)
(* (services/poi_enricher.py), the matrix sequencer (services/osrm.py)     *)
(* and the calls the handlers make (handlers/questionnaire.py).            *)
(*                                                                         *)
(* Specifications: Spec (generate_route and the normalizer), SpecNorm (the *)
(* normalizer twice), SpecExt (longer optimizer replies), SpecRegen (two   *)
(* calls with different seeds), SpecSilent (an optimizer that never        *)
(* answers), SpecPick (the stop limit), SpecCoords (coordinates out of     *)
(* range), SpecNN (_nn_order), SpecOpt (nn_two_opt_with_matrix),           *)
(* SpecEnrich (enrich_stops), SpecBackoff (_call_llm_with_backoff),        *)
(* SpecOutage (enrich_stops during an outage), SpecCache (enrich_stops     *)
(* calls with and without the cache), SpecFilter (_filter_generic_pois),   *)
(* SpecDist (_haversine_km off the meridian), SpecHandler (the handlers    *)
(* of the location state) and SpecTwins (candidates that share their       *)
(* coordinates).                                                           *)
(*                                                                         *)
(* Units.  Coordinates are points of one meridian: lat is the distance in  *)
(* metres north of a reference parallel, lon is the same for every point,  *)
(* so the haversine distance of two points is the difference of their lat. *)
(* Distances, total_km included, are metres (round(x, 1) of a distance in   *)
(* km rounds to a multiple of 100), speeds are tenths of km/h, times are   *)
(* minutes.                                                                *)
(***************************************************************************)
EXTENDS Integers, Sequences, FiniteSets, TLC

VARIABLES pc, req, pois, picked, ionet_event, ionet_result, result, enrich_event, normalized, renormalized,
          previous, arg, ret, llm, _cache, data

vars == <<pc, req, pois, picked, ionet_event, ionet_result, result, enrich_event, normalized, renormalized,
          previous, arg, ret, llm, _cache, data>>

(***************************************************************************)
(* Bounds of the model and the input sets drawn from them.                 *)
(***************************************************************************)
\* longest candidate list the POI provider returns
MaxPois == 2
\* longest step list in a reply of the external optimizer
MaxSteps == 1

\* Python None in a numeric field, and a key that is not in the dict
None == -1
Absent == -2

Transports == {"walk", "bike", "car", "transit"}
\* time_hours * 60; process_time accepts 0.5 .. 8 hours
Budgets == {30, 60}
Origins == {0, 100}
Lons == {44}
PoiLats == {None, 300, 900}
PoiNames == {"Kremlin", "Nizhny Novgorod, Russia"}
StepLats == {Absent, None, 300, 900}
StepNames == {"", "Russia"}
Seeds == {0, 1}

\* names _looks_generic_name accepts, among the names of the model
GenericLabels == {"", "Russia", "Nizhny Novgorod", "Nizhny Novgorod, Russia"}

Abs(x) == IF x < 0 THEN -x ELSE x
Max(a, b) == IF a >= b THEN a ELSE b
Min(a, b) == IF a <= b THEN a ELSE b

\* Python round(n / d): round half to even
RoundHalfEven(n, d) ==
  LET q == n \div d
      r == n % d
  IN IF 2 * r < d THEN q
     ELSE IF 2 * r > d THEN q + 1
     ELSE IF q % 2 = 0 THEN q ELSE q + 1

RECURSIVE SumSeq(_)
SumSeq(s) == IF s = <<>> THEN 0 ELSE Head(s) + SumSeq(Tail(s))

RemoveAt(s, j) == SubSeq(s, 1, j - 1) \o SubSeq(s, j + 1, Len(s))

\* every sequence over S of length at most n
SeqsUpTo(S, n) == UNION {[1..k -> S] : k \in 0..n}

(***************************************************************************)
(* services/ai_service.py: helpers                                         *)
(***************************************************************************)
\* float(v) raises TypeError on None (and on a missing key read with .get)
Usable(v) == v # None /\ v # Absent

\* a, b are <<lat, lon>> pairs on one meridian
_haversine_km(a, b) == Abs(a[1] - b[1])

_SPEEDS_KMH == [walk |-> 45, bike |-> 140, scooter |-> 180, car |-> 400, transit |-> 250]

SpeedOf(table, transport) ==
  IF transport \in DOMAIN table THEN table[transport] ELSE 45

_norm_transport(t) ==
  IF t = "car" THEN "car"
  ELSE IF t = "bike" THEN "bike"
  ELSE IF t = "transit" THEN "transit"
  ELSE "walk"

\* str.strip() on the names of the model
strip(s) == IF s = " " THEN "" ELSE IF s = " Russia " THEN "Russia" ELSE s

_looks_generic_name(name) == strip(name) \in GenericLabels

\* int(round(dist / max(speed, 0.1) * 60)), dist in metres, speed in 0.1 km/h
LegMin(dist, speed) == RoundHalfEven(dist * 6, Max(speed, 1) * 10)

\* round(total_km, 1): to the nearest 100 metres
RoundKm(metres) == RoundHalfEven(metres, 100) * 100

\* the filter left out
_filter_generic_pois_keep_all(ps) == ps

\* the filter looking at the name key alone
_filter_generic_pois_name_only(ps) ==
  LET cleaned == SelectSeq(ps, LAMBDA p : ~_looks_generic_name(p.name))
  IN IF cleaned # <<>> THEN cleaned ELSE ps

\* (p.get("name") or p.get("title") or p.get("label") or "").strip(); ""
\* stands for a key that is missing, None or the empty string
DisplayName(p) ==
  LET get(k) == IF k \in DOMAIN p THEN p[k] ELSE ""
  IN strip(IF get("name") # "" THEN get("name")
           ELSE IF get("title") # "" THEN get("title")
           ELSE get("label"))

_filter_generic_pois(ps) ==
  LET cleaned == SelectSeq(ps, LAMBDA p : ~_looks_generic_name(DisplayName(p)))
  IN IF cleaned # <<>> THEN cleaned ELSE ps

\* random.Random(seed).shuffle: a Fisher-Yates pass from the last index down
\* whose draws are a fixed function of the seed
RECURSIVE Shuffle(_, _, _)
Shuffle(s, i, draws) ==
  IF i <= 1 THEN s
  ELSE LET j == (draws % i) + 1
           swapped == [s EXCEPT ![i] = s[j], ![j] = s[i]]
       IN Shuffle(swapped, i - 1, draws \div i)

_pick_pois_with_seed(ps, seed, max_stops) ==
  SubSeq(Shuffle(ps, Len(ps), seed), 1, Min(Len(ps), max_stops))

\* nearest neighbour with a tie going to the point that comes last
RECURSIVE _nn_order_tie_last(_, _)
_nn_order_tie_last(cur, unvisited) ==
  IF unvisited = <<>> THEN <<>>
  ELSE LET n == Len(unvisited)
           j == CHOOSE k \in 1..n :
                  \A m \in 1..n :
                    \/ _haversine_km(cur, unvisited[k]) < _haversine_km(cur, unvisited[m])
                    \/ /\ _haversine_km(cur, unvisited[k]) = _haversine_km(cur, unvisited[m])
                       /\ k >= m
       IN <<unvisited[j]>> \o _nn_order_tie_last(unvisited[j], RemoveAt(unvisited, j))

\* j = min(range(len(unvisited)), key=distance): the first index at the
\* minimum; the point is popped and becomes the current position
RECURSIVE _nn_order(_, _)
_nn_order(cur, unvisited) ==
  IF unvisited = <<>> THEN <<>>
  ELSE LET n == Len(unvisited)
           j == CHOOSE k \in 1..n :
                  \A m \in 1..n :
                    \/ _haversine_km(cur, unvisited[k]) < _haversine_km(cur, unvisited[m])
                    \/ /\ _haversine_km(cur, unvisited[k]) = _haversine_km(cur, unvisited[m])
                       /\ k <= m
       IN <<unvisited[j]>> \o _nn_order(unvisited[j], RemoveAt(unvisited, j))

(***************************************************************************)
(* services/ai_service.py: _build_stops_and_summary                        *)
(***************************************************************************)
\* "lat" in p and "lon" in p
HasXY(p) == p.lat # Absent /\ p.lon # Absent

XY(p) == <<p.lat, p.lon>>

NoPoi == [name |-> "", description |-> "", lat |-> Absent, lon |-> Absent]

\* by_xy.get(xy, {}): the dict comprehension keeps, for equal coordinates,
\* the entry written last
ByXY(ps, xy) ==
  LET hits == {i \in 1..Len(ps) : HasXY(ps[i]) /\ XY(ps[i]) = xy}
  IN IF hits = {} THEN NoPoi
     ELSE ps[CHOOSE i \in hits : \A k \in hits : k <= i]

PointNames == <<"Point 1", "Point 2", "Point 3", "Point 4">>
PointName(i) == IF i \in DOMAIN PointNames THEN PointNames[i] ELSE "Point N"

\* a or b over strings: the empty string is falsy
OrStr(a, b) == IF a # "" THEN a ELSE b

\* float(p["lat"]) / float(p["lon"]) of a POI that has the keys but no value
BuildRaises(picked_pois) ==
  \E i \in 1..Len(picked_pois) :
    HasXY(picked_pois[i]) /\ ~(Usable(picked_pois[i].lat) /\ Usable(picked_pois[i].lon))

base_stay == 10

\* the slack without its floor at zero
Extra_unclamped(target_minutes, travel_min, n) ==
  Max(1, target_minutes) - (travel_min + base_stay * n)

\* extra = max(0, planned - eta_now), planned = max(1, int(target_minutes))
Extra(target_minutes, travel_min, n) ==
  Max(0, Max(1, target_minutes) - (travel_min + base_stay * n))

\* the remainder handed to the last stops instead of the first
StayMin_rem_last(idx, n, extra) ==
  base_stay + (extra \div n) + (IF idx >= n - (extra % n) THEN 1 ELSE 0)

\* s["stay_min"] of the stop at 0-based index idx
StayMin(idx, n, extra) ==
  base_stay + (extra \div n) + (IF idx < extra % n THEN 1 ELSE 0)

\* the eta taken before the slack is handed out
EtaFinal_base_only(travel_min, stays) == travel_min + base_stay * Len(stays)

\* eta_final = travel_min + sum(s["stay_min"] for s in stops)
EtaFinal(travel_min, stays) == travel_min + SumSeq(stays)

_build_stops_and_summary(start_label, start_lat, start_lon, transport, picked_pois, target_minutes) ==
  LET speed == SpeedOf(_SPEEDS_KMH, transport)
      start_xy == <<start_lat, start_lon>>
      with_xy == SelectSeq(picked_pois, HasXY)
      pts_xy == [i \in 1..Len(with_xy) |-> XY(with_xy[i])]
      ordered_xy == _nn_order(start_xy, pts_xy)
      n == Len(ordered_xy)
      prev(i) == IF i = 1 THEN start_xy ELSE ordered_xy[i - 1]
      dist == [i \in 1..n |-> _haversine_km(prev(i), ordered_xy[i])]
      leg == [i \in 1..n |-> LegMin(dist[i], speed)]
      total_km == SumSeq(dist)
      travel_min == SumSeq(leg)
      extra == Extra(target_minutes, travel_min, n)
      stay == [i \in 1..n |-> StayMin(i - 1, n, extra)]
      stops == [i \in 1..n |->
                  LET p == ByXY(picked_pois, ordered_xy[i])
                  IN [name |-> OrStr(p.name, PointName(i)),
                      description |-> p.description,
                      lat |-> ordered_xy[i][1],
                      lon |-> ordered_xy[i][2],
                      leg_min |-> leg[i],
                      stay_min |-> stay[i]]]
  IN [stops |-> stops,
      summary |-> [transport |-> transport,
                   start_lat |-> start_lat,
                   start_lon |-> start_lon,
                   start_label |-> OrStr(start_label, "Start"),
                   total_km |-> RoundKm(total_km),
                   eta_min |-> EtaFinal(travel_min, stay)]]

(***************************************************************************)
(* services/ionet_route_service.py: IonetRouteService.optimize_route       *)
(***************************************************************************)
NoResult == [kind |-> "none", steps |-> <<>>, source |-> ""]

\* float arithmetic of _haversine_km over a coordinate list raises TypeError
\* when a coordinate is None
CoordsRaise(ps) ==
  \E i \in 1..Len(ps) : HasXY(ps[i]) /\ ~(Usable(ps[i].lat) /\ Usable(ps[i].lon))

\* the second try block: greedy NN over start + pois, steps without names
IonetFallback(start, ps) ==
  LET with_xy == SelectSeq(ps, HasXY)
      coords == [i \in 1..Len(with_xy) |-> XY(with_xy[i])]
  IN IF with_xy = <<>> \/ CoordsRaise(ps) THEN NoResult
     ELSE LET route == _nn_order(<<start.lat, start.lon>>, coords)
          IN [kind |-> "dict",
              steps |-> [i \in 1..Len(route) |->
                           [name |-> "", description |-> "",
                            lat |-> route[i][1], lon |-> route[i][2]]],
              source |-> "fallback"]

\* the first try block on a 2xx reply whose content parsed to route_json;
\* totals: distance_km > 0 and duration_min > 0 in route_json
IonetParse(start, ps, steps, totals) ==
  IF ~totals /\ steps # <<>> /\ CoordsRaise(steps) THEN IonetFallback(start, ps)
  ELSE IF steps # <<>> \/ totals
       THEN [kind |-> "dict", steps |-> steps, source |-> "ionet"]
       ELSE IonetFallback(start, ps)

(***************************************************************************)
(* services/poi_enricher.py: PoiEnricher.enrich_stops, as generate_route   *)
(* sees it: the stops come back with some descriptions replaced            *)
(***************************************************************************)
MaxEnrichPerCall == 4

\* of the descriptions of the model only the empty one is weak: the texts
\* enrich_stops writes are long enough and not address-like
_needs_enrich(name, desc) == _looks_generic_name(name) \/ desc = ""

enrich_stops(stops, text) ==
  LET need == {i \in 1..Len(stops) : _needs_enrich(stops[i].name, stops[i].description)}
      first == {i \in need : Cardinality({k \in need : k < i}) < MaxEnrichPerCall}
  IN [i \in 1..Len(stops) |->
        IF i \in first THEN [stops[i] EXCEPT !.description = text] ELSE stops[i]]

(***************************************************************************)
(* services/ai_service.py: AIService.generate_route                        *)
(***************************************************************************)
NoRoute ==
  [stops |-> <<>>,
   summary |-> [transport |-> "", start_lat |-> None, start_lon |-> None,
                start_label |-> "", total_km |-> 0, eta_min |-> 0],
   meta |-> [source |-> "", reason |-> ""]]

Requests == [transport : Transports, minutes : Budgets, lat : Origins, lon : Lons, seed : Seeds]

Poi == [name : PoiNames, description : {""}, lat : PoiLats, lon : Lons]
PoiRecords == {p \in Poi : TRUE}
\* fetch_pois_nearby fills lat and lon from one coordinate pair: both or none
ProviderPoi(p) == IF p.lat = None THEN [p EXCEPT !.lon = None] ELSE p
ProviderLists == {[i \in DOMAIN ps |-> ProviderPoi(ps[i])] : ps \in SeqsUpTo(PoiRecords, MaxPois)}

Step == [name : StepNames, description : {""}, lat : StepLats, lon : Lons]
ReplySteps == SeqsUpTo(Step, MaxSteps)

tmode == _norm_transport(req.transport)
total_minutes == req.minutes
\* the stop limit with time_hours * 2 rounded to the nearest integer
max_stops_rounded == Max(3, Min(12, 2 + RoundHalfEven(req.minutes, 30)))

\* max(3, min(12, 2 + int(time_hours * 2)))
max_stops == Max(3, Min(12, 2 + (req.minutes \div 30)))

Init ==
  /\ pc = "start"
  /\ req \in Requests
  /\ pois = <<>>
  /\ picked = <<>>
  /\ ionet_event = ""
  /\ ionet_result = NoResult
  /\ result = NoRoute
  /\ enrich_event = ""
  /\ normalized = NoRoute
  /\ renormalized = NoRoute
  /\ previous = NoRoute
  /\ arg = <<>>
  /\ ret = <<>>
  /\ llm = <<>>
  /\ _cache = <<>>
  /\ data = <<>>

\* 1) fetch_pois_nearby returned a list (empty when its own request failed)
FetchPois ==
  /\ pc = "start"
  /\ \E ps \in ProviderLists : pois' = ps
  /\ pc' = "fetched"
  /\ UNCHANGED <<req, picked, ionet_event, ionet_result, result, enrich_event, normalized, renormalized, previous, arg, ret, llm, _cache, data>>

\* 1) fetch_pois_nearby raised: except Exception sets pois = []
FetchRaises ==
  /\ pc = "start"
  /\ pois' = <<>>
  /\ pc' = "fetched"
  /\ UNCHANGED <<req, picked, ionet_event, ionet_result, result, enrich_event, normalized, renormalized, previous, arg, ret, llm, _cache, data>>

\* the stay of the single stop with the base dwell taken off
SingleStopStay_less_base(minutes) == Max(1, minutes - base_stay)

\* "stay_min": max(1, total_minutes - 0)
SingleStopStay(minutes) == Max(1, minutes - 0)

\* the route returned when the provider gave no POI
DegradedRoute(lat, lon, transport, minutes) ==
  [stops |-> <<[name |-> "Start point",
                description |-> "Walk near the start.",
                lat |-> lat, lon |-> lon,
                leg_min |-> 0,
                stay_min |-> SingleStopStay(minutes)]>>,
   summary |-> [transport |-> transport, start_lat |-> lat,
                start_lon |-> lon, start_label |-> "Start",
                total_km |-> 0, eta_min |-> minutes],
   meta |-> [source |-> "fallback", reason |-> "No POI"]]

\* if not pois: the single stop at the start
NoPoiRoute ==
  /\ pc = "fetched"
  /\ pois = <<>>
  /\ result' = DegradedRoute(req.lat, req.lon, tmode, total_minutes)
  /\ pc' = "done"
  /\ UNCHANGED <<req, pois, picked, ionet_event, ionet_result, enrich_event, normalized, renormalized, previous, arg, ret, llm, _cache, data>>

\* 1.1) and 2): _filter_generic_pois, then _pick_pois_with_seed
FilterAndPick ==
  /\ pc = "fetched"
  /\ pois # <<>>
  /\ picked' = _pick_pois_with_seed(_filter_generic_pois(pois), req.seed, max_stops)
  /\ pc' = "picked"
  /\ UNCHANGED <<req, pois, ionet_event, ionet_result, result, enrich_event, normalized, renormalized, previous, arg, ret, llm, _cache, data>>

\* asyncio.wait_for(..., timeout=90) raised TimeoutError
OptimizeTimeout ==
  /\ pc = "picked"
  /\ ionet_event' = "timeout"
  /\ ionet_result' = NoResult
  /\ pc' = "optimized"
  /\ UNCHANGED <<req, pois, picked, result, enrich_event, normalized, renormalized, previous, arg, ret, llm, _cache, data>>

\* optimize_route raised: except Exception logs it
OptimizeRaises ==
  /\ pc = "picked"
  /\ ionet_event' = "raised"
  /\ ionet_result' = NoResult
  /\ pc' = "optimized"
  /\ UNCHANGED <<req, pois, picked, result, enrich_event, normalized, renormalized, previous, arg, ret, llm, _cache, data>>

\* the HTTP call raised or answered with an error status: optimize_route
\* catches it and answers with its own nearest-neighbour steps
OptimizeHttpError ==
  /\ pc = "picked"
  /\ ionet_event' = "http_error"
  /\ ionet_result' = IonetFallback(req, picked)
  /\ pc' = "optimized"
  /\ UNCHANGED <<req, pois, picked, result, enrich_event, normalized, renormalized, previous, arg, ret, llm, _cache, data>>

\* a 2xx reply
OptimizeReply ==
  /\ pc = "picked"
  /\ \E steps \in ReplySteps, totals \in BOOLEAN :
       /\ ionet_event' = IF steps = <<>> THEN "reply_no_steps"
                         ELSE IF \E i \in 1..Len(steps) :
                                   ~(Usable(steps[i].lat) /\ Usable(steps[i].lon))
                              THEN "reply_bad_steps" ELSE "reply_steps"
       /\ ionet_result' = IonetParse(req, picked, steps, totals)
  /\ pc' = "optimized"
  /\ UNCHANGED <<req, pois, picked, result, enrich_event, normalized, renormalized, previous, arg, ret, llm, _cache, data>>

UseExternal == ionet_result.kind = "dict" /\ ionet_result.steps # <<>>

\* by_xy over picked and float(s.get("lat")), float(s.get("lon")) per step
ExternalRaises ==
  \/ BuildRaises(picked)
  \/ \E i \in 1..Len(ionet_result.steps) :
       ~(Usable(ionet_result.steps[i].lat) /\ Usable(ionet_result.steps[i].lon))

\* steps -> enriched_steps: name and description re-attached by coordinates,
\* steps with a generic name dropped
EnrichedSteps(steps, ps) ==
  LET named == [i \in 1..Len(steps) |->
                  LET base == ByXY(ps, XY(steps[i]))
                  IN [name |-> OrStr(steps[i].name, OrStr(base.name, PointName(i))),
                      description |-> OrStr(steps[i].description, base.description),
                      lat |-> steps[i].lat,
                      lon |-> steps[i].lon]]
  IN SelectSeq(named, LAMBDA s : ~_looks_generic_name(s.name))

WithMeta(route, source, reason) ==
  [stops |-> route.stops, summary |-> route.summary,
   meta |-> [source |-> source, reason |-> reason]]

\* 4) the optimizer's steps become the stops
BuildExternal ==
  /\ pc = "optimized"
  /\ UseExternal
  /\ IF ExternalRaises
     THEN /\ pc' = "raised"
          /\ UNCHANGED result
     ELSE /\ result' = WithMeta(
                 _build_stops_and_summary("Start", req.lat, req.lon, tmode,
                     EnrichedSteps(ionet_result.steps, picked), total_minutes),
                 "ionet", "")
          /\ pc' = "built"
  /\ UNCHANGED <<req, pois, picked, ionet_event, ionet_result, enrich_event, normalized, renormalized, previous, arg, ret, llm, _cache, data>>

\* 5) the route is built locally from picked
BuildFallback ==
  /\ pc = "optimized"
  /\ ~UseExternal
  /\ IF BuildRaises(picked)
     THEN /\ pc' = "raised"
          /\ UNCHANGED result
     ELSE /\ result' = WithMeta(
                 _build_stops_and_summary("Start", req.lat, req.lon, tmode,
                     picked, total_minutes),
                 "fallback", "Ionet empty/400/429")
          /\ pc' = "built"
  /\ UNCHANGED <<req, pois, picked, ionet_event, ionet_result, enrich_event, normalized, renormalized, previous, arg, ret, llm, _cache, data>>

\* enrich_stops returned: descriptions from the service or from the templates
EnrichOk ==
  /\ pc = "built"
  /\ \E text \in {"llm text", "template text"} :
       /\ enrich_event' = text
       /\ result' = [result EXCEPT !.stops = enrich_stops(result.stops, text)]
  /\ pc' = "done"
  /\ UNCHANGED <<req, pois, picked, ionet_event, ionet_result, normalized, renormalized, previous, arg, ret, llm, _cache, data>>

\* enrich_stops raised: logged, the stops stay as built
EnrichRaises ==
  /\ pc = "built"
  /\ enrich_event' = "raised"
  /\ pc' = "done"
  /\ UNCHANGED <<req, pois, picked, ionet_event, ionet_result, result, normalized, renormalized, previous, arg, ret, llm, _cache, data>>

(***************************************************************************)
(* services/route_formatter.py: _ensure_stops_and_summary                  *)
(***************************************************************************)
FormatterSpeeds == [walk |-> 45, bike |-> 150, scooter |-> 150, car |-> 300, transit |-> 200]

\* not v, for a numeric field read with .get
Falsy(v) == v = None \/ v = Absent \/ v = 0

\* leg in (None, 0)
LegMissing(leg) == leg = None \/ leg = Absent \/ leg = 0

\* the branch for a route that has "stops" and "summary"
EnsureCanonical(route) ==
  LET s == route.summary
      transport == OrStr(s.transport, "walk")
      speed == SpeedOf(FormatterSpeeds, transport)
      stops == route.stops
      n == Len(stops)
      start_lat == IF s.start_lat = Absent THEN stops[1].lat ELSE s.start_lat
      start_lon == IF s.start_lon = Absent THEN stops[1].lon ELSE s.start_lon
      prev(i) == IF i = 1 THEN <<start_lat, start_lon>> ELSE XY(stops[i - 1])
      dist == [i \in 1..n |-> _haversine_km(prev(i), XY(stops[i]))]
      new_stops == [i \in 1..n |->
                      [stops[i] EXCEPT
                         !.leg_min = IF LegMissing(@) THEN RoundHalfEven(dist[i] * 6, speed * 10) ELSE @,
                         !.stay_min = IF @ = None \/ @ = Absent THEN 10 ELSE @]]
      total_km == SumSeq(dist)
  IN IF stops = <<>> THEN route
     ELSE [route EXCEPT
             !.stops = new_stops,
             !.summary = [s EXCEPT
                !.start_lat = start_lat,
                !.start_lon = start_lon,
                !.start_label = OrStr(@, "Start"),
                !.total_km = RoundKm(IF Falsy(@) THEN total_km ELSE @),
                !.eta_min = IF Falsy(@)
                            THEN SumSeq([i \in 1..n |-> new_stops[i].leg_min + new_stops[i].stay_min])
                            ELSE @]]

\* the branch for a flat step list with top-level fields
EnsureFlat(route) ==
  LET steps == route.steps
      n == Len(steps)
      transport == OrStr(route.transport, "walk")
      speed == SpeedOf(FormatterSpeeds, transport)
      start_lat == IF route.start_lat # Absent THEN route.start_lat
                   ELSE IF steps # <<>> THEN steps[1].lat ELSE None
      start_lon == IF route.start_lon # Absent THEN route.start_lon
                   ELSE IF steps # <<>> THEN steps[1].lon ELSE None
      has_prev(i) == i > 1 \/ (start_lat # None /\ start_lon # None)
      prev(i) == IF i = 1 THEN <<start_lat, start_lon>> ELSE XY(steps[i - 1])
      dist == [i \in 1..n |-> IF has_prev(i) THEN _haversine_km(prev(i), XY(steps[i])) ELSE 0]
      stops == [i \in 1..n |->
                  [name |-> OrStr(steps[i].name, PointName(i)),
                   description |-> steps[i].description,
                   lat |-> steps[i].lat,
                   lon |-> steps[i].lon,
                   leg_min |-> IF has_prev(i) THEN RoundHalfEven(dist[i] * 6, speed * 10) ELSE 0,
                   stay_min |-> IF steps[i].stay_min = Absent THEN 10 ELSE steps[i].stay_min]]
      total_km == SumSeq(dist)
      eta_min == IF Falsy(route.duration_min)
                 THEN SumSeq([i \in 1..n |-> stops[i].leg_min + stops[i].stay_min])
                 ELSE route.duration_min
  IN [stops |-> stops,
      summary |-> [transport |-> transport,
                   start_lat |-> start_lat,
                   start_lon |-> start_lon,
                   start_label |-> OrStr(route.start_label, "Start"),
                   total_km |-> RoundKm(IF Falsy(route.distance_km) THEN total_km ELSE route.distance_km),
                   eta_min |-> Max(1, eta_min),
                   start_time |-> None,
                   end_time |-> None]]

_ensure_stops_and_summary(route) ==
  IF "stops" \in DOMAIN route /\ "summary" \in DOMAIN route
  THEN EnsureCanonical(route)
  ELSE EnsureFlat(route)

\* RouteFormatter.format_route normalizes the route generate_route returned
FormatRoute ==
  /\ pc = "done"
  /\ normalized' = _ensure_stops_and_summary(result)
  /\ pc' = "formatted"
  /\ UNCHANGED <<req, pois, picked, ionet_event, ionet_result, result, enrich_event, renormalized, previous, arg, ret, llm, _cache, data>>

Next ==
  \/ FetchPois
  \/ FetchRaises
  \/ NoPoiRoute
  \/ FilterAndPick
  \/ OptimizeTimeout
  \/ OptimizeRaises
  \/ OptimizeHttpError
  \/ OptimizeReply
  \/ BuildExternal
  \/ BuildFallback
  \/ EnrichOk
  \/ EnrichRaises
  \/ FormatRoute

Spec == Init /\ [][Next]_vars

(***************************************************************************)
(* Properties of generate_route                                            *)
(***************************************************************************)
Returned == pc \in {"done", "formatted"}

LegSum(stops) == SumSeq([i \in 1..Len(stops) |-> stops[i].leg_min])
StaySum(stops) == SumSeq([i \in 1..Len(stops) |-> stops[i].stay_min])

\* the list _build_stops_and_summary was given for the returned route
BuiltFrom ==
  IF result.meta.source = "ionet" THEN EnrichedSteps(ionet_result.steps, picked) ELSE picked

\* a provider candidate is among the stops: a stop has its name and coordinates
Appears(p, stops) ==
  \E i \in 1..Len(stops) :
    stops[i].name = p.name /\ stops[i].lat = p.lat /\ stops[i].lon = p.lon

\* the optimizer's request failed or its reply had no usable steps
OptimizerFailed ==
  ionet_event \in {"timeout", "raised", "http_error", "reply_no_steps", "reply_bad_steps"}

\* C1: on a path where the provider returned at least one POI, the returned
\* route's summary.eta_min is the sum over its stops of leg_min + stay_min
C1_EtaIsSum ==
  (Returned /\ pois # <<>>) =>
    result.summary.eta_min = LegSum(result.stops) + StaySum(result.stops)

C1_Witness ==
  /\ pc = "done"
  /\ pois # <<>>
  /\ Len(result.stops) = 2
  /\ result.summary.eta_min > LegSum(result.stops) + base_stay * 2

\* C2: every returned route has at least one stop
C2_AtLeastOneStop == Returned => Len(result.stops) >= 1

\* C3: generate_route ends in a returned route, never in a raised exception
C3_NeverRaises == pc # "raised"

\* C4: when the optimizer's request failed or its reply had no usable steps,
\* the returned route is tagged "fallback" with a reason, never "ionet"
C4_FailedIsFallback ==
  (Returned /\ pois # <<>> /\ OptimizerFailed) =>
    /\ result.meta.source = "fallback"
    /\ result.meta.reason # ""

C6_GenericNeverAStop ==
  Returned =>
    \A i \in 1..Len(pois) :
      _looks_generic_name(pois[i].name) => ~Appears(pois[i], result.stops)

\* C6 amended: a provider candidate with a generic name is never among the
\* stops of the returned route when some candidate has a name that is not
\* generic
C6_GenericDroppedAmongReal ==
  (Returned /\ \E k \in 1..Len(pois) : ~_looks_generic_name(pois[k].name)) =>
    \A i \in 1..Len(pois) :
      _looks_generic_name(pois[i].name) => ~Appears(pois[i], result.stops)

C6_Witness ==
  /\ pc = "done"
  /\ \E k \in 1..Len(pois) : ~_looks_generic_name(pois[k].name)
  /\ \E i \in 1..Len(pois) : _looks_generic_name(pois[i].name)
  /\ result.meta.source = "fallback"
  /\ Len(result.stops) = 1

\* C7: with n >= 1 stops and extra = max(0, target - (sum(leg_min) + 10 n)),
\* the stop at 0-based index idx has stay_min = 10 + extra div n +
\* (1 if idx < extra mod n else 0); the stays sum to 10 n + extra and any
\* two differ by at most 1
C7_StayShare ==
  (pc \in {"built", "done"} /\ pois # <<>> /\ Len(result.stops) >= 1) =>
    LET stops == result.stops
        n == Len(stops)
        extra == Max(0, total_minutes - (LegSum(stops) + 10 * n))
    IN /\ \A i \in 1..n :
            stops[i].stay_min =
              10 + (extra \div n) + (IF i - 1 < extra % n THEN 1 ELSE 0)
       /\ StaySum(stops) = 10 * n + extra
       /\ \A i, j \in 1..n : Abs(stops[i].stay_min - stops[j].stay_min) <= 1

C7_Witness ==
  /\ pc = "built"
  /\ Len(result.stops) = 2
  /\ result.stops[1].stay_min = result.stops[2].stay_min + 1

\* C8: with n >= 1 stops, if sum(leg_min) + 10 n <= target then eta_min is
\* the target; otherwise every stay_min is 10, no stop is dropped and
\* eta_min = sum(leg_min) + 10 n, above the target
C8_BudgetFit ==
  (pc \in {"built", "done"} /\ pois # <<>> /\ Len(result.stops) >= 1) =>
    LET stops == result.stops
        n == Len(stops)
        floor == LegSum(stops) + 10 * n
    IN IF floor <= total_minutes
       THEN result.summary.eta_min = total_minutes
       ELSE /\ \A i \in 1..n : stops[i].stay_min = 10
            /\ n = Len(BuiltFrom)
            /\ result.summary.eta_min = floor
            /\ result.summary.eta_min > total_minutes

C8_Witness ==
  /\ pc = "built"
  /\ Len(result.stops) = 2
  /\ result.summary.eta_min > total_minutes
  /\ result.stops[1].stay_min = 10

\* C9: _ensure_stops_and_summary leaves leg_min and stay_min of every stop
\* and eta_min and total_km of the summary of a returned route unchanged
C9_NormalizeKeepsTimes ==
  pc = "formatted" =>
    /\ Len(normalized.stops) = Len(result.stops)
    /\ \A i \in 1..Len(result.stops) :
         /\ normalized.stops[i].leg_min = result.stops[i].leg_min
         /\ normalized.stops[i].stay_min = result.stops[i].stay_min
    /\ normalized.summary.eta_min = result.summary.eta_min
    /\ normalized.summary.total_km = result.summary.total_km
    /\ normalized.summary.eta_min =
         LegSum(normalized.stops) + StaySum(normalized.stops)

(***************************************************************************)
(* _ensure_stops_and_summary applied twice to a route of either shape      *)
(***************************************************************************)
NormStop ==
  [name : {"Kremlin"}, description : {""}, lat : {300, 900}, lon : Lons,
   leg_min : {None, 0, 5}, stay_min : {None, 10}]

FlatStep ==
  [name : {"", "Kremlin"}, description : {""}, lat : {300, 900}, lon : Lons,
   stay_min : {Absent, 15}]

\* a declared start is a coordinate pair; an undeclared one lacks both keys
StartPairs == {<<Absent, Absent>>} \cup {<<lat, lon>> : lat \in Origins, lon \in Lons}

\* declared distances in metres and durations in minutes; Absent: no key
DeclaredKm == {Absent, 40, 300}
DeclaredMin == {Absent, 25}

CanonicalInputs ==
  {[stops |-> stops,
    summary |-> [transport |-> t, start_lat |-> st[1], start_lon |-> st[2],
                 start_label |-> "", total_km |-> km, eta_min |-> eta]] :
     stops \in SeqsUpTo(NormStop, MaxSteps), t \in {"", "car"}, st \in StartPairs,
     km \in DeclaredKm, eta \in DeclaredMin}

FlatInputs ==
  {[steps |-> steps, transport |-> t, start_lat |-> st[1], start_lon |-> st[2],
    start_label |-> "", distance_km |-> km, duration_min |-> dur] :
     steps \in SeqsUpTo(FlatStep, MaxSteps), t \in {"", "car"}, st \in StartPairs,
     km \in DeclaredKm, dur \in DeclaredMin}

InitNorm ==
  /\ pc = "norm_in"
  /\ req = [transport |-> "walk", minutes |-> 30, lat |-> 0, lon |-> 44, seed |-> 0]
  /\ pois = <<>>
  /\ picked = <<>>
  /\ ionet_event = ""
  /\ ionet_result = NoResult
  /\ result \in CanonicalInputs \cup FlatInputs
  /\ enrich_event = ""
  /\ normalized = NoRoute
  /\ renormalized = NoRoute
  /\ previous = NoRoute
  /\ arg = <<>>
  /\ ret = <<>>
  /\ llm = <<>>
  /\ _cache = <<>>
  /\ data = <<>>

NormalizeOnce ==
  /\ pc = "norm_in"
  /\ normalized' = _ensure_stops_and_summary(result)
  /\ pc' = "norm_once"
  /\ UNCHANGED <<req, pois, picked, ionet_event, ionet_result, result, enrich_event, renormalized, previous, arg, ret, llm, _cache, data>>

NormalizeTwice ==
  /\ pc = "norm_once"
  /\ renormalized' = _ensure_stops_and_summary(normalized)
  /\ pc' = "norm_twice"
  /\ UNCHANGED <<req, pois, picked, ionet_event, ionet_result, result, enrich_event, normalized, previous, arg, ret, llm, _cache, data>>

NextNorm == NormalizeOnce \/ NormalizeTwice

SpecNorm == InitNorm /\ [][NextNorm]_vars

\* C10: applying _ensure_stops_and_summary twice gives the same route as
\* applying it once, for every input route of either shape
C10_Idempotent == pc = "norm_twice" => renormalized = normalized

\* C11: the route _ensure_stops_and_summary builds from a flat step list
\* with at least one step has summary.eta_min equal to the sum over its
\* stops of leg_min + stay_min, with and without a top-level duration_min
C11_FlatEtaIsSum ==
  (pc = "norm_once" /\ "steps" \in DOMAIN result /\ result.steps # <<>>) =>
    normalized.summary.eta_min =
      LegSum(normalized.stops) + StaySum(normalized.stops)

(***************************************************************************)
(* generate_route with replies of the external optimizer that hold more    *)
(* than one step                                                           *)
(***************************************************************************)
\* longest step list in a reply of the external optimizer, in SpecExt
MaxReply == 2

ExternalStep == [name : {"", "Volga"}, description : {""}, lat : {300, 900}, lon : Lons]
ExternalReplies == SeqsUpTo(ExternalStep, MaxReply)

RequestsExt == [transport : {"walk"}, minutes : Budgets, lat : Origins, lon : Lons, seed : {0}]

InitExt ==
  /\ pc = "start"
  /\ req \in RequestsExt
  /\ pois = <<>>
  /\ picked = <<>>
  /\ ionet_event = ""
  /\ ionet_result = NoResult
  /\ result = NoRoute
  /\ enrich_event = ""
  /\ normalized = NoRoute
  /\ renormalized = NoRoute
  /\ previous = NoRoute
  /\ arg = <<>>
  /\ ret = <<>>
  /\ llm = <<>>
  /\ _cache = <<>>
  /\ data = <<>>

\* a 2xx reply whose steps all carry coordinates
OptimizeReplyLong ==
  /\ pc = "picked"
  /\ \E steps \in ExternalReplies, totals \in BOOLEAN :
       /\ ionet_event' = IF steps = <<>> THEN "reply_no_steps" ELSE "reply_steps"
       /\ ionet_result' = IonetParse(req, picked, steps, totals)
  /\ pc' = "optimized"
  /\ UNCHANGED <<req, pois, picked, result, enrich_event, normalized, renormalized, previous, arg, ret, llm, _cache, data>>

NextExt ==
  \/ FetchPois
  \/ NoPoiRoute
  \/ FilterAndPick
  \/ OptimizeReplyLong
  \/ BuildExternal
  \/ BuildFallback
  \/ EnrichRaises

SpecExt == InitExt /\ [][NextExt]_vars

\* C12: on the external branch the stops of the route lie, one by one, at
\* the coordinates of the optimizer's steps, minus those whose resolved name
\* is generic, in the optimizer's own order
C12_OptimizerOrderKept ==
  (pc \in {"built", "done"} /\ result.meta.source = "ionet") =>
    LET kept == EnrichedSteps(ionet_result.steps, picked)
    IN /\ Len(result.stops) = Len(kept)
       /\ \A i \in 1..Len(kept) :
            /\ result.stops[i].lat = kept[i].lat
            /\ result.stops[i].lon = kept[i].lon

\* C15: a returned route built from provider candidates has at most
\* max_stops stops, max_stops being at most 12, and at most as many stops as
\* the provider returned candidates, on the external and the fallback branch
C15_StopsBounded ==
  (Returned /\ pois # <<>>) =>
    /\ max_stops <= 12
    /\ Len(result.stops) <= max_stops
    /\ Len(result.stops) <= Len(pois)

(***************************************************************************)
(* Two generate_route calls with the same arguments but the diversity      *)
(* seed, the provider answering both with the same candidates and the      *)
(* optimizer timing out                                                    *)
(***************************************************************************)
\* number of candidates the provider returns in SpecRegen
SpotCount == 4

SpotNames == <<"Kremlin", "Volga", "Fair", "Stairs", "Museum">>
Spot(i) ==
  [name |-> IF i \in DOMAIN SpotNames THEN SpotNames[i] ELSE "Spot",
   description |-> "", lat |-> 300 * i, lon |-> 44]

\* the candidates in every order the provider may list them
SpotLists ==
  {[i \in 1..SpotCount |-> Spot(f[i])] :
     f \in {g \in [1..SpotCount -> 1..SpotCount] : \A a, b \in 1..SpotCount : g[a] = g[b] => a = b}}

\* seed of the second call; 0 .. 23 reaches every shuffle of four candidates
RegenSeeds == 0..23

RequestsRegen == [transport : {"walk"}, minutes : Budgets, lat : {0}, lon : Lons, seed : Seeds]

InitRegen ==
  /\ pc = "start"
  /\ req \in RequestsRegen
  /\ pois = <<>>
  /\ picked = <<>>
  /\ ionet_event = ""
  /\ ionet_result = NoResult
  /\ result = NoRoute
  /\ enrich_event = ""
  /\ normalized = NoRoute
  /\ renormalized = NoRoute
  /\ previous = NoRoute
  /\ arg = <<>>
  /\ ret = <<>>
  /\ llm = <<>>
  /\ _cache = <<>>
  /\ data = <<>>

\* the provider's answer to the first call
FetchSpots ==
  /\ pc = "start"
  /\ previous = NoRoute
  /\ \E ps \in SpotLists : pois' = ps
  /\ pc' = "fetched"
  /\ UNCHANGED <<req, picked, ionet_event, ionet_result, result, enrich_event, normalized, renormalized, previous, arg, ret, llm, _cache, data>>

\* the provider's answer to the second call: the same candidates
FetchSame ==
  /\ pc = "start"
  /\ previous # NoRoute
  /\ pc' = "fetched"
  /\ UNCHANGED <<req, pois, picked, ionet_event, ionet_result, result, enrich_event, normalized, renormalized, previous, arg, ret, llm, _cache, data>>

\* the caller keeps the first route and calls generate_route again with
\* another diversity_seed
SecondCall ==
  /\ pc = "done"
  /\ previous = NoRoute
  /\ previous' = result
  /\ \E s \in RegenSeeds \ {req.seed} : req' = [req EXCEPT !.seed = s]
  /\ picked' = <<>>
  /\ ionet_event' = ""
  /\ ionet_result' = NoResult
  /\ result' = NoRoute
  /\ enrich_event' = ""
  /\ pc' = "start"
  /\ UNCHANGED <<pois, normalized, renormalized, arg, ret, llm, _cache, data>>

NextRegen ==
  \/ FetchSpots
  \/ FetchSame
  \/ FilterAndPick
  \/ OptimizeTimeout
  \/ BuildFallback
  \/ EnrichRaises
  \/ SecondCall

SpecRegen == InitRegen /\ [][NextRegen]_vars

\* the stops of a route in visiting order: name and coordinates
StopOrder(route) ==
  [i \in 1..Len(route.stops) |->
     <<route.stops[i].name, route.stops[i].lat, route.stops[i].lon>>]

\* C13: of two generate_route calls with the same arguments and the same
\* provider candidates (at least 4) but different diversity seeds, the
\* returned routes differ in the ordering of their stops, and each has
\* eta_min equal to the sum of leg_min + stay_min
C13_SeedsChangeOrder ==
  (pc = "done" /\ previous # NoRoute) =>
    /\ StopOrder(result) # StopOrder(previous)
    /\ result.summary.eta_min = LegSum(result.stops) + StaySum(result.stops)
    /\ previous.summary.eta_min = LegSum(previous.stops) + StaySum(previous.stops)

(***************************************************************************)
(* A request whose optimizer call is never answered, made by a direct      *)
(* caller of generate_route or by one of the two handlers of               *)
(* handlers/questionnaire.py                                               *)
(***************************************************************************)
\* httpx.AsyncClient(timeout=60): seconds each phase of the request may wait
HttpxTimeoutS == 60
\* asyncio.wait_for(optimize_route(...), timeout=90)
WaitForTimeoutS == 90

\* seconds into the call at which the server falls silent: at once, or after
\* a slow connection set-up
SilentFrom == {0, 45}

Callers == {"generate_route", "generate_and_send_route", "regenerate_route"}

RequestsSilent ==
  [transport : {"walk"}, minutes : Budgets, lat : Origins, lon : Lons, seed : {0},
   caller : Callers]

InitSilent ==
  /\ req \in RequestsSilent
  /\ pc = IF req.caller = "generate_route" THEN "start" ELSE "handler"
  /\ pois = <<>>
  /\ picked = <<>>
  /\ ionet_event = ""
  /\ ionet_result = NoResult
  /\ result = NoRoute
  /\ enrich_event = ""
  /\ normalized = NoRoute
  /\ renormalized = NoRoute
  /\ previous = NoRoute
  /\ arg = <<>>
  /\ ret = <<>>
  /\ llm = <<>>
  /\ _cache = <<>>
  /\ data = <<>>

\* both handlers call generate_route(..., start_time=...), a keyword the
\* method does not have: the call raises TypeError inside the handler's try,
\* except Exception answers the user that no route could be built
HandlerCallRaises ==
  /\ pc = "handler"
  /\ ret' = "no route message"
  /\ pc' = "handler_replied"
  /\ UNCHANGED <<req, pois, picked, ionet_event, ionet_result, result, enrich_event, normalized, renormalized, previous, arg, llm, _cache, data>>

\* the optimizer's server never answers: the httpx timeout ends the request
\* inside optimize_route, which answers with its own nearest-neighbour
\* steps, unless wait_for's timeout comes first and cancels the call
OptimizeSilent ==
  /\ pc = "picked"
  /\ \E from \in SilentFrom :
       IF from + HttpxTimeoutS < WaitForTimeoutS
       THEN /\ ionet_event' = "http_error"
            /\ ionet_result' = IonetFallback(req, picked)
       ELSE /\ ionet_event' = "timeout"
            /\ ionet_result' = NoResult
  /\ pc' = "optimized"
  /\ UNCHANGED <<req, pois, picked, result, enrich_event, normalized, renormalized, previous, arg, ret, llm, _cache, data>>

NextSilent ==
  \/ HandlerCallRaises
  \/ FetchPois
  \/ NoPoiRoute
  \/ FilterAndPick
  \/ OptimizeSilent
  \/ BuildExternal
  \/ BuildFallback
  \/ EnrichOk
  \/ EnrichRaises

SpecSilent == InitSilent /\ [][NextSilent]_vars

\* C14: a request whose optimizer call is never answered ends with a route
\* returned to its caller, a handler included, that is tagged "fallback" and
\* has every stop at a POI of the selected subset
C14_SilentOptimizerFallsBack ==
  /\ pc = "handler_replied" => ret = "route"
  /\ (pc = "done" /\ pois # <<>>) =>
       /\ result.meta.source = "fallback"
       /\ \A i \in 1..Len(result.stops) :
            \E k \in 1..Len(picked) :
              /\ picked[k].lat = result.stops[i].lat
              /\ picked[k].lon = result.stops[i].lon

(***************************************************************************)
(* The stop limit of generate_route over every accepted time budget, with  *)
(* more candidates than the largest limit                                  *)
(***************************************************************************)
\* number of candidates the provider returns in SpecPick
ManyCount == 13

ManySpots == [i \in 1..ManyCount |-> Spot(i)]

\* time_hours * 60 over the range process_time accepts: 0.5 .. 8 hours
AllBudgets == 30..480

RequestsPick == [transport : {"walk"}, minutes : AllBudgets, lat : {0}, lon : Lons, seed : Seeds]

InitPick ==
  /\ pc = "start"
  /\ req \in RequestsPick
  /\ pois = <<>>
  /\ picked = <<>>
  /\ ionet_event = ""
  /\ ionet_result = NoResult
  /\ result = NoRoute
  /\ enrich_event = ""
  /\ normalized = NoRoute
  /\ renormalized = NoRoute
  /\ previous = NoRoute
  /\ arg = <<>>
  /\ ret = <<>>
  /\ llm = <<>>
  /\ _cache = <<>>
  /\ data = <<>>

FetchMany ==
  /\ pc = "start"
  /\ pois' = ManySpots
  /\ pc' = "fetched"
  /\ UNCHANGED <<req, picked, ionet_event, ionet_result, result, enrich_event, normalized, renormalized, previous, arg, ret, llm, _cache, data>>

NextPick == FetchMany \/ FilterAndPick

SpecPick == InitPick /\ [][NextPick]_vars

\* C16 as stated: with more candidates than any limit, the Diversity Selector
\* is asked for, and returns, clamp(2 + round(time_hours * 2), 3, 12) POIs
C16_StopLimitRound ==
  pc = "picked" =>
    Len(picked) = Max(3, Min(12, 2 + RoundHalfEven(req.minutes, 30)))

\* C16 amended: with more candidates than any limit, the Diversity Selector
\* is asked for, and returns, clamp(2 + floor(time_hours * 2), 3, 12) POIs
C16_StopLimitFloor ==
  pc = "picked" =>
    Len(picked) = Max(3, Min(12, 2 + (req.minutes \div 30)))

C16_Witness ==
  /\ pc = "picked"
  /\ req.minutes = 105
  /\ Len(picked) = 5

(***************************************************************************)
(* generate_route given coordinates beyond the poles.  The reference       *)
(* parallel is the equator; on one meridian the haversine formula still    *)
(* returns the difference of the two lat for a lat beyond 90 degrees.      *)
(***************************************************************************)
\* 90 degrees of latitude, in metres along the meridian
LatLimit == 10007543
\* 180 degrees of longitude
LonLimit == 180

\* utils/validators.py: -90 <= lat <= 90 and -180 <= lon <= 180; float()
\* of None raises and the except answers False
is_valid_lat_lon(lat, lon) ==
  /\ Usable(lat) /\ Usable(lon)
  /\ -LatLimit <= lat /\ lat <= LatLimit
  /\ -LonLimit <= lon /\ lon <= LonLimit

\* an origin near 56 N and one near 90.8 N, and a POI 300 metres north of each
CoordOrigins == {6227000, 10100000}
CoordPoi == [name : {"Kremlin"}, description : {""}, lat : {6227300, 10100300}, lon : Lons]

RequestsCoords ==
  [transport : {"walk", "car"}, minutes : Budgets, lat : CoordOrigins, lon : Lons, seed : {0}]

InitCoords ==
  /\ pc = "start"
  /\ req \in RequestsCoords
  /\ pois = <<>>
  /\ picked = <<>>
  /\ ionet_event = ""
  /\ ionet_result = NoResult
  /\ result = NoRoute
  /\ enrich_event = ""
  /\ normalized = NoRoute
  /\ renormalized = NoRoute
  /\ previous = NoRoute
  /\ arg = <<>>
  /\ ret = <<>>
  /\ llm = <<>>
  /\ _cache = <<>>
  /\ data = <<>>

FetchCoords ==
  /\ pc = "start"
  /\ \E ps \in SeqsUpTo(CoordPoi, MaxPois) : pois' = ps
  /\ pc' = "fetched"
  /\ UNCHANGED <<req, picked, ionet_event, ionet_result, result, enrich_event, normalized, renormalized, previous, arg, ret, llm, _cache, data>>

NextCoords ==
  \/ FetchCoords
  \/ NoPoiRoute
  \/ FilterAndPick
  \/ OptimizeTimeout
  \/ OptimizeHttpError
  \/ BuildExternal
  \/ BuildFallback
  \/ EnrichRaises

SpecCoords == InitCoords /\ [][NextCoords]_vars

\* C17: no route is built over selected POIs when the origin or one of them
\* has a latitude outside [-90, 90] or a longitude outside [-180, 180]
C17_OutOfRangeRejected ==
  (pc \in {"built", "done"} /\ picked # <<>>) =>
    /\ is_valid_lat_lon(req.lat, req.lon)
    /\ \A i \in 1..Len(picked) : is_valid_lat_lon(picked[i].lat, picked[i].lon)
    /\ \A i \in 1..Len(result.stops) :
         is_valid_lat_lon(result.stops[i].lat, result.stops[i].lon)

(***************************************************************************)
(* _nn_order as a function of its arguments                                *)
(***************************************************************************)
\* longest point list given to _nn_order in SpecNN
MaxPts == 4

NNStarts == {<<300, 44>>, <<450, 44>>}
NNPoints == {<<0, 44>>, <<300, 44>>, <<600, 44>>, <<900, 44>>}

InitNN ==
  /\ pc = "nn_in"
  /\ arg \in [start : NNStarts, pts : SeqsUpTo(NNPoints, MaxPts)]
  /\ ret = <<>>
  /\ req = [transport |-> "walk", minutes |-> 30, lat |-> 0, lon |-> 44, seed |-> 0]
  /\ pois = <<>>
  /\ picked = <<>>
  /\ ionet_event = ""
  /\ ionet_result = NoResult
  /\ result = NoRoute
  /\ enrich_event = ""
  /\ normalized = NoRoute
  /\ renormalized = NoRoute
  /\ previous = NoRoute
  /\ llm = <<>>
  /\ _cache = <<>>
  /\ data = <<>>

CallNN ==
  /\ pc = "nn_in"
  /\ ret' = _nn_order(arg.start, arg.pts)
  /\ pc' = "nn_out"
  /\ UNCHANGED <<req, pois, picked, ionet_event, ionet_result, result, enrich_event, normalized, renormalized, previous, arg, llm, _cache, data>>

NextNN == CallNN

SpecNN == InitNN /\ [][NextNN]_vars

\* how many times v occurs in s
Count(s, v) == Cardinality({i \in 1..Len(s) : s[i] = v})

\* the index in s of the c-th occurrence of v
NthOcc(s, v, c) == CHOOSE i \in 1..Len(s) : s[i] = v /\ Count(SubSeq(s, 1, i), v) = c

\* C18: _nn_order(start, pts) is a permutation of pts, repeated points kept
\* with their multiplicity; each element is at minimum distance from the
\* previous position (start for the first) among the points not yet placed;
\* of two different points at that minimum the one whose first unplaced
\* occurrence comes first in pts is placed
C18_NNOrder ==
  pc = "nn_out" =>
    LET pts == arg.pts
        n == Len(pts)
        prev(k) == IF k = 1 THEN arg.start ELSE ret[k - 1]
        placed(k, v) == Count(SubSeq(ret, 1, k - 1), v)
    IN /\ Len(ret) = n
       /\ \A v \in NNPoints : Count(ret, v) = Count(pts, v)
       /\ \A k \in 1..n : \A m \in k..n :
            /\ _haversine_km(prev(k), ret[k]) <= _haversine_km(prev(k), ret[m])
            /\ (/\ _haversine_km(prev(k), ret[k]) = _haversine_km(prev(k), ret[m])
                /\ ret[k] # ret[m])
               => NthOcc(pts, ret[k], placed(k, ret[k]) + 1)
                    < NthOcc(pts, ret[m], placed(k, ret[m]) + 1)

\* two different points tie for the first place and a repeated point is kept
C18_Witness ==
  /\ pc = "nn_out"
  /\ arg.start = <<300, 44>>
  /\ arg.pts = <<<<600, 44>>, <<0, 44>>, <<600, 44>>, <<900, 44>>>>
  /\ ret = <<<<600, 44>>, <<600, 44>>, <<900, 44>>, <<0, 44>>>>

(***************************************************************************)
(* services/osrm.py: nn_two_opt_with_matrix.  Points are the indices       *)
(* 0 .. n-1 of the matrix; a path is a sequence of them.                   *)
(***************************************************************************)
\* largest duration matrix is MatN x MatN
MatN == 4

\* durations in seconds; 0 stands for 0.0 and for null, both falsy
Durs == {0, 1, 5}

\* durations[a][b] or 1e12; 1e12 is scaled to a value that, like it, is above
\* every sum of durations of a path
Big == 1000000
Dur(durations, a, b) == IF durations[a][b] = 0 THEN Big ELSE durations[a][b]

\* every n x n matrix over Durs with a zero diagonal
Matrices(n) ==
  LET off == {ab \in (0..(n - 1)) \X (0..(n - 1)) : ab[1] # ab[2]}
  IN {[a \in 0..(n - 1) |-> [b \in 0..(n - 1) |-> IF a = b THEN 0 ELSE f[<<a, b>>]]] :
        f \in [off -> Durs]}

\* the NN loop: min(remaining, key=...) walks the set of small ints in
\* ascending order and keeps the first minimum
RECURSIVE NNPath(_, _, _)
NNPath(durations, path, remaining) ==
  IF remaining = {} THEN path
  ELSE LET last == path[Len(path)]
           nxt == CHOOSE j \in remaining :
                    \A m \in remaining :
                      \/ Dur(durations, last, j) < Dur(durations, last, m)
                      \/ Dur(durations, last, j) = Dur(durations, last, m) /\ j <= m
       IN NNPath(durations, Append(path, nxt), remaining \ {nxt})

\* length(ordr)
length(durations, ordr) ==
  SumSeq([i \in 1..(Len(ordr) - 1) |-> Dur(durations, ordr[i], ordr[i + 1])])

\* best[:i] + best[i:k + 1][::-1] + best[k + 1:], p = i + 1 and q = k + 1
\* being the 1-based positions of the segment's ends
Reversed(best, p, q) ==
  [x \in 1..Len(best) |-> IF x >= p /\ x <= q THEN best[p + q - x] ELSE best[x]]

\* i in range(1, len(best) - 2), k in range(i + 1, len(best) - 1), as 1-based
\* positions: the last position is in no segment
Segments(n) == {pq \in (2..(n - 2)) \X (3..(n - 1)) : pq[1] < pq[2]}

\* the while loop: the first improving reversal in scan order is taken and
\* the scan starts again
RECURSIVE TwoOpt(_, _)
TwoOpt(durations, best) ==
  LET improving == {pq \in Segments(Len(best)) :
                      length(durations, Reversed(best, pq[1], pq[2])) < length(durations, best)}
  IN IF improving = {} THEN best
     ELSE LET first == CHOOSE pq \in improving :
                         \A other \in improving :
                           \/ pq[1] < other[1]
                           \/ pq[1] = other[1] /\ pq[2] <= other[2]
          IN TwoOpt(durations, Reversed(best, first[1], first[2]))

nn_two_opt_with_matrix(durations) ==
  LET n == Cardinality(DOMAIN durations)
  IN IF n <= 2 THEN [i \in 1..n |-> i - 1]
     ELSE TwoOpt(durations, NNPath(durations, <<0>>, 1..(n - 1)))

InitOpt ==
  /\ pc = "opt_in"
  /\ \E n \in 1..MatN : arg \in Matrices(n)
  /\ ret = <<>>
  /\ req = [transport |-> "walk", minutes |-> 30, lat |-> 0, lon |-> 44, seed |-> 0]
  /\ pois = <<>>
  /\ picked = <<>>
  /\ ionet_event = ""
  /\ ionet_result = NoResult
  /\ result = NoRoute
  /\ enrich_event = ""
  /\ normalized = NoRoute
  /\ renormalized = NoRoute
  /\ previous = NoRoute
  /\ llm = <<>>
  /\ _cache = <<>>
  /\ data = <<>>

CallTwoOpt ==
  /\ pc = "opt_in"
  /\ ret' = nn_two_opt_with_matrix(arg)
  /\ pc' = "opt_out"
  /\ UNCHANGED <<req, pois, picked, ionet_event, ionet_result, result, enrich_event, normalized, renormalized, previous, arg, llm, _cache, data>>

NextOpt == CallTwoOpt

SpecOpt == InitOpt /\ [][NextOpt]_vars

\* C19: nn_two_opt_with_matrix returns a permutation of 0 .. n-1 that starts
\* with 0 and whose total time no reversal of a segment [i..k],
\* 1 <= i < k <= n-1, strictly reduces
C19_TwoOptLocalOptimum ==
  pc = "opt_out" =>
    LET n == Cardinality(DOMAIN arg)
    IN /\ Len(ret) = n
       /\ \A v \in 0..(n - 1) : \E x \in 1..n : ret[x] = v
       /\ ret[1] = 0
       /\ \A p \in 2..n : \A q \in (p + 1)..n :
            length(arg, Reversed(ret, p, q)) >= length(arg, ret)

(***************************************************************************)
(* services/poi_enricher.py: PoiEnricher.enrich_stops in full, as a        *)
(* function of the stops, the cache and the outcome of                     *)
(* _call_llm_with_backoff                                                  *)
(***************************************************************************)
\* longest stop list given to enrich_stops, and longest "descriptions" list
\* of a reply, in SpecEnrich
MaxStops == 2

EnrichStop ==
  [name : {"Kremlin", "Russia"}, description : {"", "A fortress of the 16th century"},
   lat : {300}, lon : Lons, leg_min : {4}, stay_min : {10}]

\* _cache_key: name, lat, lon (locale and interests are those of the call)
CacheKey(s) == <<s.name, s.lat, s.lon>>

NoCache == [k \in {} |-> ""]
Caches == {NoCache, [k \in {<<"Kremlin", 300, 44>>} |-> "A text kept in the cache"]}

\* self._cache.get(key): "" stands for None
CacheGet(cache, key) == IF key \in DOMAIN cache THEN cache[key] ELSE ""

\* self._cache[key] = desc
CachePut(cache, key, desc) ==
  [k \in DOMAIN cache \cup {key} |-> IF k = key THEN desc ELSE cache[k]]

\* _fallback_description: a template chosen by the name, with the name in it
TemplateFor(name) ==
  IF name = "Kremlin" THEN "Kremlin is worth a stop."
  ELSE IF name = "Russia" THEN "Russia is worth a stop."
  ELSE "Location is worth a stop."

\* an item of "descriptions": idx is Absent when it is not a number; "n/a"
\* is a description shorter than 8 characters
ReplyIdx == {Absent, -3, 0, 1, 2}
ReplyObj == [idx : ReplyIdx, description : {"n/a", "A text from the service"}]

\* what _call_llm_with_backoff did: an httpx exception came out of
\* _try_call_once, it returned None, a dict without a "descriptions" list,
\* or a dict with one
Replies ==
  {[kind |-> k, descriptions |-> <<>>] : k \in {"raises", "none", "no_list"}}
  \cup {[kind |-> "list", descriptions |-> d] : d \in SeqsUpTo(ReplyObj, MaxStops)}

\* a stop rebuilt from its name, coordinates and the new description alone
WithDescription_rebuilt(s, desc) ==
  [name |-> s.name, description |-> desc, lat |-> s.lat, lon |-> s.lon,
   leg_min |-> 0, stay_min |-> 0]

\* {**s, "description": desc}
WithDescription(s, desc) == [s EXCEPT !.description = desc]

\* isinstance(desc, str) and len(desc.strip()) >= 8
LongEnough(desc) == desc \notin {"", "n/a"}

\* the loop over parsed["descriptions"]
RECURSIVE ApplyDescriptions(_, _, _)
ApplyDescriptions(stops, cache, objs) ==
  IF objs = <<>> THEN [stops |-> stops, cache |-> cache, raised |-> FALSE]
  ELSE LET obj == Head(objs)
           i == obj.idx + 1
       IN IF /\ obj.idx # Absent
             /\ LongEnough(obj.description)
             /\ 0 <= obj.idx
             /\ obj.idx < Len(stops)
          THEN ApplyDescriptions(
                 [stops EXCEPT ![i] = WithDescription(stops[i], obj.description)],
                 CachePut(cache, CacheKey(stops[i]), obj.description),
                 Tail(objs))
          ELSE ApplyDescriptions(stops, cache, Tail(objs))

\* the first max_enrich_per_call positions whose stop needs a description
ToEnrichIdx(stops) ==
  LET need == {i \in 1..Len(stops) : _needs_enrich(stops[i].name, stops[i].description)}
  IN {i \in need : Cardinality({k \in need : k < i}) < MaxEnrichPerCall}

\* the positions of batch: those of to_enrich_idx the cache has nothing for
Batch(stops, cache) ==
  {i \in ToEnrichIdx(stops) : CacheGet(cache, CacheKey(stops[i])) = ""}

EnrichStops(stops, cache, reply) ==
  LET to_enrich_idx == ToEnrichIdx(stops)
      cached(i) == CacheGet(cache, CacheKey(stops[i]))
      batch == Batch(stops, cache)
      from_cache == [i \in 1..Len(stops) |->
                       IF i \in to_enrich_idx /\ cached(i) # ""
                       THEN WithDescription(stops[i], cached(i)) ELSE stops[i]]
      keys == {CacheKey(stops[i]) : i \in batch}
  IN IF to_enrich_idx = {} \/ batch = {}
     THEN [stops |-> from_cache, cache |-> cache, raised |-> FALSE]
     ELSE IF reply.kind = "raises"
     THEN [stops |-> from_cache, cache |-> cache, raised |-> TRUE]
     ELSE IF reply.kind \in {"none", "no_list"}
     THEN [stops |-> [i \in 1..Len(stops) |->
                        IF i \in batch
                        THEN WithDescription(from_cache[i], TemplateFor(stops[i].name))
                        ELSE from_cache[i]],
           cache |-> [k \in DOMAIN cache \cup keys |->
                        IF k \in keys THEN TemplateFor(k[1]) ELSE cache[k]],
           raised |-> FALSE]
     ELSE ApplyDescriptions(from_cache, cache, reply.descriptions)

InitEnrich ==
  /\ pc = "enrich_in"
  /\ arg \in [stops : SeqsUpTo(EnrichStop, MaxStops), cache : Caches]
  /\ ret = <<>>
  /\ req = [transport |-> "walk", minutes |-> 30, lat |-> 0, lon |-> 44, seed |-> 0]
  /\ pois = <<>>
  /\ picked = <<>>
  /\ ionet_event = ""
  /\ ionet_result = NoResult
  /\ result = NoRoute
  /\ enrich_event = ""
  /\ normalized = NoRoute
  /\ renormalized = NoRoute
  /\ previous = NoRoute
  /\ llm = <<>>
  /\ _cache = <<>>
  /\ data = <<>>

CallEnrich ==
  /\ pc = "enrich_in"
  /\ \E reply \in Replies :
       /\ ret' = EnrichStops(arg.stops, arg.cache, reply)
       /\ enrich_event' = reply.kind
  /\ pc' = "enrich_out"
  /\ UNCHANGED <<req, pois, picked, ionet_event, ionet_result, result, normalized, renormalized, previous, arg, llm, _cache, data>>

NextEnrich == CallEnrich

SpecEnrich == InitEnrich /\ [][NextEnrich]_vars

\* C20: the list enrich_stops returns has the length and the order of its
\* input, and each of its stops equals the input stop at the same position
\* in every field but description, whatever the description service replied
C20_OnlyDescriptions ==
  (pc = "enrich_out" /\ ~ret.raised) =>
    /\ Len(ret.stops) = Len(arg.stops)
    /\ \A i \in 1..Len(arg.stops) :
         [ret.stops[i] EXCEPT !.description = arg.stops[i].description] = arg.stops[i]

\* the service's text went to the second stop, the first kept its own
C20_Witness ==
  /\ pc = "enrich_out"
  /\ ~ret.raised
  /\ enrich_event = "list"
  /\ Len(arg.stops) = 2
  /\ ret.stops[1].description = "A fortress of the 16th century"
  /\ arg.stops[2].description = ""
  /\ ret.stops[2].description = "A text from the service"

\* C21: when enrich_stops raises (an httpx timeout comes out of
\* _try_call_once), generate_route logs it and returns the route, and the
\* stops of that route, which are the list enrich_stops was working on in
\* place, equal the stops computed before enrichment started
C21_FailureLeavesStops ==
  (pc = "enrich_out" /\ ret.raised) => ret.stops = arg.stops

(***************************************************************************)
(* services/poi_enricher.py: _call_llm_with_backoff, one call of           *)
(* _try_call_once at a time.  Delays are hundredths of a second.           *)
(***************************************************************************)
\* len(self.model_candidates): the three fixed models, and the configured
\* one before them when POI_ENRICH_MODEL is set
ModelCounts == {3, 4}

\* what one POST to the description service does: httpx raises (a timeout),
\* status 429, another error status, a body _extract_json makes nothing of,
\* a body that parses to {} (which "if parsed" takes for no result), a body
\* that parses to a non-empty dict
Outcomes == {"timeout", "429", "http_error", "malformed", "empty", "parsed"}

\* the failures of an unavailable service
Outages == {"timeout", "429", "http_error", "malformed"}

_try_call_once(outcome) ==
  [raises |-> outcome = "timeout",
   parsed |-> IF outcome = "parsed" THEN "dict" ELSE IF outcome = "empty" THEN "{}" ELSE "None",
   retryable |-> outcome = "429"]

\* retry_delay = 0.6
retry_delay_0 == 60

\* random.random() * 0.4 lies in [0, 0.4): its ends, in hundredths
Jitter == {0, 39}

\* the loop before its first iteration
LlmStart ==
  [turn |-> 0, model |-> 1, calls |-> 0, retry_delay |-> retry_delay_0,
   sleeps |-> <<>>, outcomes |-> <<>>, status |-> "running", value |-> ""]

\* one iteration of "for model in self.model_candidates", followed, after
\* the last model of a round, by retry_delay *= 1.7 and, after the last
\* model of the second round, by "return None"
LoopStep(allowed) ==
  /\ pc = "llm_call"
  /\ llm.status = "running"
  /\ \E o \in allowed :
       \E j \in (IF _try_call_once(o).retryable THEN Jitter ELSE {0}) :
         LET r == _try_call_once(o)
             called == [llm EXCEPT !.calls = @ + 1, !.outcomes = Append(@, o)]
             slept == IF r.retryable
                      THEN [called EXCEPT !.sleeps =
                              Append(@, [turn |-> llm.turn, after |-> llm.calls + 1,
                                         delay |-> llm.retry_delay + j])]
                      ELSE called
             last == llm.model = arg.model_candidates
             advanced == IF last
                         THEN [slept EXCEPT !.turn = @ + 1, !.model = 1,
                                            !.retry_delay = (@ * 17) \div 10]
                         ELSE [slept EXCEPT !.model = @ + 1]
         IN llm' = IF r.raises THEN [called EXCEPT !.status = "raised"]
                   ELSE IF r.parsed = "dict"
                   THEN [called EXCEPT !.status = "returned", !.value = "parsed"]
                   ELSE IF last /\ llm.turn = 1
                   THEN [advanced EXCEPT !.status = "returned", !.value = "None"]
                   ELSE advanced
  /\ pc' = IF llm'.status = "running" THEN "llm_call" ELSE "llm_done"

InitBackoff ==
  /\ pc = "llm_call"
  /\ arg \in [model_candidates : ModelCounts]
  /\ llm = LlmStart
  /\ ret = <<>>
  /\ req = [transport |-> "walk", minutes |-> 30, lat |-> 0, lon |-> 44, seed |-> 0]
  /\ pois = <<>>
  /\ picked = <<>>
  /\ ionet_event = ""
  /\ ionet_result = NoResult
  /\ result = NoRoute
  /\ enrich_event = ""
  /\ normalized = NoRoute
  /\ renormalized = NoRoute
  /\ previous = NoRoute
  /\ _cache = <<>>
  /\ data = <<>>

TryModel ==
  /\ LoopStep(Outcomes)
  /\ UNCHANGED <<req, pois, picked, ionet_event, ionet_result, result, enrich_event, normalized, renormalized, previous, arg, ret, _cache, data>>

NextBackoff == TryModel

SpecBackoff == InitBackoff /\ [][NextBackoff]_vars

\* C23: _call_llm_with_backoff makes at most 2 * |model_candidates| calls
\* and is over once it made that many; it returns the parsed result of the
\* first call that yields one; each of its waits follows a 429 reply; every
\* wait of the second round is longer than every wait of the first; and
\* when no call yielded a result it has returned None
C23_BackoffTerminates ==
  /\ llm.calls <= 2 * arg.model_candidates
  /\ llm.calls = 2 * arg.model_candidates => pc = "llm_done"
  /\ \A k \in 1..Len(llm.outcomes) :
       llm.outcomes[k] = "parsed" =>
         k = Len(llm.outcomes) /\ llm.status = "returned" /\ llm.value = "parsed"
  /\ \A k \in 1..Len(llm.sleeps) : llm.outcomes[llm.sleeps[k].after] = "429"
  /\ \A a, b \in 1..Len(llm.sleeps) :
       (llm.sleeps[a].turn = 0 /\ llm.sleeps[b].turn = 1) =>
         llm.sleeps[a].delay < llm.sleeps[b].delay
  /\ (pc = "llm_done" /\ \A k \in 1..Len(llm.outcomes) : llm.outcomes[k] # "parsed") =>
       llm.status = "returned" /\ llm.value = "None"

(***************************************************************************)
(* An enrich_stops call while the description service is unavailable:      *)
(* every POST of the call fails in the same way                            *)
(***************************************************************************)
InitOutage ==
  /\ pc = "enrich_in"
  /\ arg \in [stops : SeqsUpTo(EnrichStop, MaxStops), cache : Caches,
              model_candidates : ModelCounts]
  /\ enrich_event \in Outages
  /\ llm = LlmStart
  /\ ret = <<>>
  /\ req = [transport |-> "walk", minutes |-> 30, lat |-> 0, lon |-> 44, seed |-> 0]
  /\ pois = <<>>
  /\ picked = <<>>
  /\ ionet_event = ""
  /\ ionet_result = NoResult
  /\ result = NoRoute
  /\ normalized = NoRoute
  /\ renormalized = NoRoute
  /\ previous = NoRoute
  /\ _cache = <<>>
  /\ data = <<>>

\* enrich_stops up to its call of the service: it returns before it when no
\* stop is left for the batch
BeginEnrich ==
  /\ pc = "enrich_in"
  /\ IF Batch(arg.stops, arg.cache) = {}
     THEN /\ ret' = EnrichStops(arg.stops, arg.cache, [kind |-> "none", descriptions |-> <<>>])
          /\ pc' = "enrich_out"
     ELSE /\ ret' = ret
          /\ pc' = "llm_call"
  /\ UNCHANGED <<req, pois, picked, ionet_event, ionet_result, result, enrich_event, normalized, renormalized, previous, arg, llm, _cache, data>>

\* one POST of the call, failing as the outage makes it fail
TryModelOutage ==
  /\ LoopStep({enrich_event})
  /\ UNCHANGED <<req, pois, picked, ionet_event, ionet_result, result, enrich_event, normalized, renormalized, previous, arg, ret, _cache, data>>

\* enrich_stops from the end of _call_llm_with_backoff on
EndEnrich ==
  /\ pc = "llm_done"
  /\ llm.status = "raised" \/ llm.value = "None"
  /\ ret' = EnrichStops(arg.stops, arg.cache,
                        [kind |-> IF llm.status = "raised" THEN "raises" ELSE "none",
                         descriptions |-> <<>>])
  /\ pc' = "enrich_out"
  /\ UNCHANGED <<req, pois, picked, ionet_event, ionet_result, result, enrich_event, normalized, renormalized, previous, arg, llm, _cache, data>>

NextOutage == BeginEnrich \/ TryModelOutage \/ EndEnrich

SpecOutage == InitOutage /\ [][NextOutage]_vars

\* C22: after an enrich_stops call during which every attempt on the
\* description service timed out, or every one got 429, or every one got
\* an HTTP error, or every one got malformed JSON, each stop that was
\* selected for enrichment and not served from the cache carries the local
\* templated description
C22_OutageGivesTemplates ==
  pc = "enrich_out" =>
    \A i \in Batch(arg.stops, arg.cache) :
      ret.stops[i].description = TemplateFor(arg.stops[i].name)

(***************************************************************************)
(* A sequence of enrich_stops calls on one PoiEnricher, next to the same   *)
(* calls on an enricher whose cache never holds anything.  The description *)
(* service is up (it answers every place of the request with the text it   *)
(* has for that place) or down (every POST gets 429).                      *)
(***************************************************************************)
\* number of enrich_stops calls in SpecCache
MaxCalls == 2

\* the text the service has for a place
ServiceText(name) ==
  IF name = "Kremlin" THEN "The service on Kremlin" ELSE "The service on Russia"

\* the positions of batch in the order of the list: the "places" of the request
BatchSeq(stops, cache) ==
  SelectSeq([i \in 1..Len(stops) |-> i], LAMBDA i : i \in Batch(stops, cache))

\* what _call_llm_with_backoff returns for the request of this call
ServiceReply(svc, stops, cache) ==
  IF svc = "down" THEN [kind |-> "none", descriptions |-> <<>>]
  ELSE [kind |-> "list",
        descriptions |->
          [k \in 1..Len(BatchSeq(stops, cache)) |->
             [idx |-> BatchSeq(stops, cache)[k] - 1,
              description |-> ServiceText(stops[BatchSeq(stops, cache)[k]].name)]]]

InitCache ==
  /\ pc = "idle"
  /\ _cache = NoCache
  /\ arg = <<>>
  /\ ret = [calls |-> 0, cached |-> <<>>, uncached |-> <<>>]
  /\ enrich_event = ""
  /\ req = [transport |-> "walk", minutes |-> 30, lat |-> 0, lon |-> 44, seed |-> 0]
  /\ pois = <<>>
  /\ picked = <<>>
  /\ ionet_event = ""
  /\ ionet_result = NoResult
  /\ result = NoRoute
  /\ normalized = NoRoute
  /\ renormalized = NoRoute
  /\ previous = NoRoute
  /\ llm = <<>>
  /\ data = <<>>

\* one enrich_stops call: on the enricher with its cache, and on one whose
\* cache is empty at every call
CallCached ==
  /\ pc \in {"idle", "called"}
  /\ ret.calls < MaxCalls
  /\ \E stops \in SeqsUpTo(EnrichStop, MaxStops), svc \in {"up", "down"} :
       LET with == EnrichStops(stops, _cache, ServiceReply(svc, stops, _cache))
           without == EnrichStops(stops, NoCache, ServiceReply(svc, stops, NoCache))
       IN /\ arg' = stops
          /\ enrich_event' = svc
          /\ _cache' = with.cache
          /\ ret' = [calls |-> ret.calls + 1, cached |-> with.stops, uncached |-> without.stops]
  /\ pc' = "called"
  /\ UNCHANGED <<req, pois, picked, ionet_event, ionet_result, result, normalized, renormalized, previous, llm, data>>

NextCache == CallCached

SpecCache == InitCache /\ [][NextCache]_vars

\* C24: every call of a sequence of enrich_stops calls returns, with the
\* cache, the descriptions it returns without it, calls that follow an
\* outage of the service included
C24_CacheIsTransparent ==
  pc = "called" =>
    /\ Len(ret.cached) = Len(ret.uncached)
    /\ \A i \in 1..Len(ret.cached) :
         ret.cached[i].description = ret.uncached[i].description

(***************************************************************************)
(* _filter_generic_pois as a function of a list of POIs that carry any of  *)
(* the keys name, title and label                                          *)
(***************************************************************************)
\* longest list given to _filter_generic_pois in SpecFilter
MaxFilter == 2

\* "" is a key without a value, " " a value of blanks only
LabelledPoi ==
  [name : {"", " ", "Kremlin", "Russia"},
   title : {"", "Volga", "Nizhny Novgorod"},
   label : {"", "Fair", " Russia "}]

InitFilter ==
  /\ pc = "filter_in"
  /\ arg \in SeqsUpTo(LabelledPoi, MaxFilter)
  /\ ret = <<>>
  /\ req = [transport |-> "walk", minutes |-> 30, lat |-> 0, lon |-> 44, seed |-> 0]
  /\ pois = <<>>
  /\ picked = <<>>
  /\ ionet_event = ""
  /\ ionet_result = NoResult
  /\ result = NoRoute
  /\ enrich_event = ""
  /\ normalized = NoRoute
  /\ renormalized = NoRoute
  /\ previous = NoRoute
  /\ llm = <<>>
  /\ _cache = <<>>
  /\ data = <<>>

CallFilter ==
  /\ pc = "filter_in"
  /\ ret' = _filter_generic_pois(arg)
  /\ pc' = "filter_out"
  /\ UNCHANGED <<req, pois, picked, ionet_event, ionet_result, result, enrich_event, normalized, renormalized, previous, arg, llm, _cache, data>>

NextFilter == CallFilter

SpecFilter == InitFilter /\ [][NextFilter]_vars

\* the first non-empty of name, title and label, else the empty string
Resolved(p) ==
  IF p.name # "" THEN p.name ELSE IF p.title # "" THEN p.title ELSE p.label

\* the positions of the POIs whose resolved name is not a generic label
Kept(ps) == {i \in 1..Len(ps) : ~_looks_generic_name(Resolved(ps[i]))}

\* C25: _filter_generic_pois returns the POIs whose resolved display name
\* is not a generic label, each of them once and in the order of the input,
\* or the input itself when no POI has such a name; it returns no empty
\* list for an input that is not empty
C25_FilterKeepsNamed ==
  pc = "filter_out" =>
    /\ IF Kept(arg) = {} THEN ret = arg
       ELSE /\ Len(ret) = Cardinality(Kept(arg))
            /\ \A i \in Kept(arg) :
                 ret[Cardinality({k \in Kept(arg) : k <= i})] = arg[i]
    /\ arg # <<>> => ret # <<>>

\* a POI without a name but with a title was kept, a POI named with blanks
\* was dropped
C25_Witness ==
  /\ pc = "filter_out"
  /\ Len(arg) = 2
  /\ arg[1].name = " "
  /\ arg[2].name = ""
  /\ arg[2].title = "Volga"
  /\ ret = <<arg[2]>>

(***************************************************************************)
(* _haversine_km on points off the meridian of the other specifications.   *)
(* Coordinates are degrees, multiples of 60, for which the cosines and so  *)
(* the haversine h are exact: 16 * h is an integer.  The distance is km,   *)
(* rounded.                                                                *)
(***************************************************************************)
GridLats == {-60, 0, 60}
GridLons == {-120, -60, 0, 60, 120, 180}

\* 2 * math.cos(math.radians(deg)) for a multiple of 60 degrees
TwoCos(deg) ==
  LET r == deg % 360
  IN IF r = 0 THEN 2
     ELSE IF r = 60 \/ r = 300 THEN 1
     ELSE IF r = 120 \/ r = 240 THEN -1
     ELSE -2

\* 16 * h without the term of the longitudes
Hav16_lat_only(a, b) == 4 * (2 - TwoCos(b[1] - a[1]))

\* 16 * h, with sin(x / 2) ** 2 = (1 - cos(x)) / 2
Hav16(a, b) ==
  4 * (2 - TwoCos(b[1] - a[1]))
  + TwoCos(a[1]) * TwoCos(b[1]) * (2 - TwoCos(b[2] - a[2]))

\* round(2 * 6371.0 * math.asin(math.sqrt(k / 16))) for k = 0 .. 16
ArcKm ==
  <<0, 3220, 4605, 5706, 6672, 7559, 8398, 9209, 10008, 10806, 11617, 12457,
    13343, 14309, 15411, 16795, 20015>>

HaversineKm(a, b) == ArcKm[Hav16(a, b) + 1]

InitDist ==
  /\ pc = "dist_in"
  /\ arg \in [a : GridLats \X GridLons, b : GridLats \X GridLons]
  /\ ret = <<>>
  /\ req = [transport |-> "walk", minutes |-> 30, lat |-> 0, lon |-> 44, seed |-> 0]
  /\ pois = <<>>
  /\ picked = <<>>
  /\ ionet_event = ""
  /\ ionet_result = NoResult
  /\ result = NoRoute
  /\ enrich_event = ""
  /\ normalized = NoRoute
  /\ renormalized = NoRoute
  /\ previous = NoRoute
  /\ llm = <<>>
  /\ _cache = <<>>
  /\ data = <<>>

\* the distance taken in both directions
CallHaversine ==
  /\ pc = "dist_in"
  /\ ret' = [ab |-> HaversineKm(arg.a, arg.b), ba |-> HaversineKm(arg.b, arg.a)]
  /\ pc' = "dist_out"
  /\ UNCHANGED <<req, pois, picked, ionet_event, ionet_result, result, enrich_event, normalized, renormalized, previous, arg, llm, _cache, data>>

NextDist == CallHaversine

SpecDist == InitDist /\ [][NextDist]_vars

HandlerTimeoutS == 60

\* the parameters of AIService.generate_route
GenerateRouteParams ==
  {"lat", "lon", "interests", "time_hours", "transport", "location", "diversity_seed"}

\* the keywords generate_and_send_route passes
SendKwargs ==
  {"interests", "time_hours", "location", "lat", "lon", "transport", "start_time",
   "diversity_seed"}

\* the keywords regenerate_route passes
RegenKwargs ==
  {"lat", "lon", "interests", "time_hours", "transport", "diversity_seed", "start_time"}

\* seconds route assembly takes when it is within the timeout and when not
AssemblySeconds == {5, 75}

Assemblies == [seconds : AssemblySeconds, raises : BOOLEAN]

\* await asyncio.wait_for(ai_service.generate_route(**kwargs), timeout=60):
\* binding the keywords comes first and raises TypeError for a keyword the
\* method does not have
CallGenerateRoute(kwargs, assembly) ==
  IF ~(kwargs \subseteq GenerateRouteParams) THEN "TypeError"
  ELSE IF assembly.raises THEN "raises"
  ELSE IF assembly.seconds > HandlerTimeoutS THEN "TimeoutError"
  ELSE "route"

\* FSM data after process_interests, process_time, process_start_time and
\* process_transport; "" and None are keys not set yet
Questionnaires ==
  [interests : {"museums", "parks"}, time_hours : Budgets, transport : Transports,
   start_time : {"", "10:00"}, latitude : {None}, longitude : {None},
   location_text : {""}, data_last_lat : {None}, data_last_lon : {None},
   data_last_loc : {""}]

InitHandler ==
  /\ pc = "location"
  /\ data \in Questionnaires
  /\ arg \in Assemblies
  /\ ret = [handler |-> "", reply |-> ""]
  /\ req = [transport |-> "walk", minutes |-> 30, lat |-> 0, lon |-> 44, seed |-> 0]
  /\ pois = <<>>
  /\ picked = <<>>
  /\ ionet_event = ""
  /\ ionet_result = NoResult
  /\ result = NoRoute
  /\ enrich_event = ""
  /\ normalized = NoRoute
  /\ renormalized = NoRoute
  /\ previous = NoRoute
  /\ llm = <<>>
  /\ _cache = <<>>

\* process_location_geo / process_location_text with a location that
\* resolves, and the generate_and_send_route they end with
ProcessLocation ==
  /\ pc = "location"
  /\ \E lat \in Origins, lon \in Lons, display \in {"Kremlin", "56.00000, 44.00000"} :
       LET located == [data EXCEPT !.latitude = lat, !.longitude = lon,
                                   !.location_text = display]
           outcome == CallGenerateRoute(SendKwargs, arg)
       IN IF outcome = "route"
          THEN /\ ret' = [handler |-> "generate_and_send_route", reply |-> "route"]
               /\ data' = [located EXCEPT !.data_last_lat = lat, !.data_last_lon = lon,
                                          !.data_last_loc = display]
          ELSE /\ ret' = [handler |-> "generate_and_send_route",
                          reply |-> IF outcome = "TimeoutError" THEN "service is slow"
                                    ELSE "could not build the route"]
               /\ data' = located
  /\ pc' = "finished"
  /\ UNCHANGED <<req, pois, picked, ionet_event, ionet_result, result, enrich_event, normalized, renormalized, previous, arg, llm, _cache>>

\* the "generate more" button after a first answer
RegenerateRoute ==
  /\ pc = "finished"
  /\ LET lat == IF data.data_last_lat # None THEN data.data_last_lat ELSE data.latitude
         lon == IF data.data_last_lon # None THEN data.data_last_lon ELSE data.longitude
         outcome == CallGenerateRoute(RegenKwargs, arg)
     IN ret' = [handler |-> "regenerate_route",
                reply |-> IF ~(data.interests # "" /\ lat # None /\ lon # None)
                          THEN "could not restore the route data"
                          ELSE IF outcome = "route" THEN "route"
                          ELSE IF outcome = "TimeoutError" THEN "service is slow"
                          ELSE "could not build the route"]
  /\ pc' = "finished"
  /\ UNCHANGED <<req, pois, picked, ionet_event, ionet_result, result, enrich_event, normalized, renormalized, previous, arg, llm, _cache, data>>

NextHandler == ProcessLocation \/ RegenerateRoute

SpecHandler == InitHandler /\ [][NextHandler]_vars

\* C27: both handlers pass generate_route keywords it accepts; whenever
\* route assembly returns a route within the timeout, the handler that ran
\* replied with the route, and generate_and_send_route stored
\* data_last_lat, data_last_lon and data_last_loc; and the "could not
\* build the route" reply is sent only when route assembly itself raised
C27_HandlerSendsRoute ==
  pc = "finished" =>
    /\ (~arg.raises /\ arg.seconds <= HandlerTimeoutS) =>
         /\ ret.reply = "route"
         /\ data.data_last_lat = data.latitude
         /\ data.data_last_lon = data.longitude
         /\ data.data_last_loc = data.location_text
    /\ ret.reply = "could not build the route" => arg.raises

(***************************************************************************)
(* generate_route on the local-fallback branch with candidates that may    *)
(* share their coordinates (two places of one building)                    *)
(***************************************************************************)
\* longest candidate list the provider returns in SpecTwins
MaxTwins == 2

TwinPoi ==
  [name : {"Kremlin", "Volga"}, description : {"A fortress", "A river"},
   lat : {300, 900}, lon : Lons]

RequestsTwins == [transport : {"walk"}, minutes : Budgets, lat : Origins, lon : Lons, seed : Seeds]

InitTwins ==
  /\ pc = "start"
  /\ req \in RequestsTwins
  /\ pois = <<>>
  /\ picked = <<>>
  /\ ionet_event = ""
  /\ ionet_result = NoResult
  /\ result = NoRoute
  /\ enrich_event = ""
  /\ normalized = NoRoute
  /\ renormalized = NoRoute
  /\ previous = NoRoute
  /\ arg = <<>>
  /\ ret = <<>>
  /\ llm = <<>>
  /\ _cache = <<>>
  /\ data = <<>>

\* the provider's answer: one candidate or more, each with coordinates
FetchTwins ==
  /\ pc = "start"
  /\ \E ps \in SeqsUpTo(TwinPoi, MaxTwins) \ {<<>>} : pois' = ps
  /\ pc' = "fetched"
  /\ UNCHANGED <<req, picked, ionet_event, ionet_result, result, enrich_event, normalized, renormalized, previous, arg, ret, llm, _cache, data>>

NextTwins ==
  \/ FetchTwins
  \/ FilterAndPick
  \/ OptimizeTimeout
  \/ BuildFallback
  \/ EnrichRaises

SpecTwins == InitTwins /\ [][NextTwins]_vars

\* the stop carries the name, the description and the coordinates of p
Carries(stop, p) ==
  /\ stop.name = p.name
  /\ stop.description = p.description
  /\ stop.lat = p.lat
  /\ stop.lon = p.lon

\* C28: on the local-fallback branch the route has one stop for each
\* selected POI with coordinates, and each selected POI is carried, with
\* its own name and description, by as many stops as picked holds copies of
\* it (by one stop when it is selected once), whether or not another
\* selected POI has the same coordinates
C28_EachPickedOnce ==
  (pc = "built" /\ result.meta.source = "fallback") =>
    /\ Len(result.stops) = Cardinality({k \in 1..Len(picked) : HasXY(picked[k])})
    /\ \A k \in 1..Len(picked) :
         HasXY(picked[k]) =>
           Cardinality({i \in 1..Len(result.stops) : Carries(result.stops[i], picked[k])})
             = Cardinality({j \in 1..Len(picked) : picked[j] = picked[k]})

\* C29: on the external branch every stop of the route lies at the
\* coordinates of a selected candidate: a step of the optimizer that
\* matches no selected POI is not among the stops
C29_StopsAmongPicked ==
  (pc \in {"built", "done"} /\ result.meta.source = "ionet") =>
    \A i \in 1..Len(result.stops) :
      \E k \in 1..Len(picked) :
        /\ HasXY(picked[k])
        /\ picked[k].lat = result.stops[i].lat
        /\ picked[k].lon = result.stops[i].lon

\* C30: a call of enrich_stops that returns leaves every stop as it was
\* unless the stop needed enrichment and was among the first
\* max_enrich_per_call stops that did; a stop with an adequate description
\* is returned unchanged whatever idx the reply of the service names
C30_OnlySelectedChange ==
  (pc = "enrich_out" /\ ~ret.raised) =>
    \A i \in 1..Len(arg.stops) :
      i \notin ToEnrichIdx(arg.stops) => ret.stops[i] = arg.stops[i]

====
